---- MODULE Spec2Model ----
\* Model of mocap_optitrack's rigid_body_publisher.cpp:
\*   utilities::getRosPose, RigidBodyPublisher (constructor, publish) and
\*   RigidBodyPublishDispatcher (constructor, publish).
EXTENDS Integers, Sequences, FiniteSets

\* ---------------------------------------------------------------- bounds
\* Coordinates range over -MaxCoord..MaxCoord plus NaN.
MaxCoord == 1
\* Longest batch of samples handed to RigidBodyPublishDispatcher::publish.
MaxBatch == 2
\* Longest configuration list handed to the dispatcher's constructor.
MaxConfigs == 2
\* Number of publish calls in a run.
MaxCalls == 2

\* ---------------------------------------------------------------- doubles
\* A double is an integer of the range, or NaN. NaN is the one value that
\* compares unequal to itself; negating it leaves it NaN.
NaN == 1000
Floats == (-MaxCoord .. MaxCoord) \cup {NaN}
FloatNeq(a, b) == IF a = NaN \/ b = NaN THEN TRUE ELSE a # b
FloatNeg(a) == IF a = NaN THEN NaN ELSE 0 - a

Vector3(x, y, z) == [x |-> x, y |-> y, z |-> z]
Quaternion(x, y, z, w) == [x |-> x, y |-> y, z |-> z, w |-> w]

\* ---------------------------------------------------------------- inputs
BodyIds == {1, 2}
Times == {1, 2}
FrameIds == {"world", "map"}

\* RigidBody sample: identifier, validity flag, pose.
RigidBody(id, valid, p, q) ==
  [bodyId |-> id, isTrackingValid |-> valid,
   pose |-> [position |-> p, orientation |-> q]]

\* bool RigidBody::hasValidData() const: the sample's validity flag.
hasValidData(body) == body.isTrackingValid

\* Version tags (major, minor), compared lexicographically.
Version(major, minor) == [major |-> major, minor |-> minor]
Version17 == Version(1, 7)
VersionGE(a, b) ==
  \/ a.major > b.major
  \/ a.major = b.major /\ a.minor >= b.minor
NatNetVersions == {Version(0, 9), Version(1, 6), Version(1, 7), Version(2, 0)}

\* PublisherConfiguration records.
PublisherConfiguration(id, fPose, fPose2d, fOdom, fTf, parent) ==
  [rigidBodyId |-> id,
   publishPose |-> fPose, poseTopicName |-> "pose",
   publishPose2d |-> fPose2d, pose2dTopicName |-> "pose2d",
   publishOdom |-> fOdom, odomTopicName |-> "odom",
   publishTf |-> fTf,
   parentFrameId |-> parent, childFrameId |-> "body"]

\* Every combination of enabled sinks, for every id and parent frame.
AllConfigurations ==
  { PublisherConfiguration(id, a, b, c, d, f) :
      id \in BodyIds, a \in BOOLEAN, b \in BOOLEAN, c \in BOOLEAN,
      d \in BOOLEAN, f \in FrameIds }

\* ---------------------------------------------------------------- messages
ZeroTime == 0
DefaultHeader == [stamp |-> ZeroTime, frame_id |-> ""]
Zero3 == Vector3(0, 0, 0)

\* Variant of getRosPose: the old convention swaps y and z without the sign flip.
getRosPose_noFlip(body, newCoordinates) ==
  LET p == body.pose.position
      o == body.pose.orientation
  IN [header |-> DefaultHeader,
      pose |->
        IF newCoordinates
        THEN [position |-> Vector3(p.x, p.y, p.z),
              orientation |-> Quaternion(o.x, o.y, o.z, o.w)]
        ELSE [position |-> Vector3(p.x, p.z, p.y),
              orientation |-> Quaternion(o.x, o.z, o.y, o.w)]]

\* geometry_msgs::msg::PoseStamped getRosPose(RigidBody const& body, bool newCoordinates)
getRosPose(body, newCoordinates) ==
  LET p == body.pose.position
      o == body.pose.orientation
  IN [header |-> DefaultHeader,
      pose |->
        IF newCoordinates
        THEN [position |-> Vector3(p.x, p.y, p.z),
              orientation |-> Quaternion(o.x, o.y, o.z, o.w)]
        ELSE [position |-> Vector3(p.x, FloatNeg(p.z), p.y),
              orientation |-> Quaternion(o.x, FloatNeg(o.z), o.y, o.w)]]

\* tf2::getYaw(q): the yaw angle of q, kept as an uninterpreted term.
getYaw(q) == [yawOf |-> q]

\* ---------------------------------------------------------------- Publisher
\* A sink handle is the sequence holding its topic name; a shared_ptr that was
\* never assigned is null. Every emitted message records the handle it went
\* through (handle) and the Publisher object that emitted it (by): a message whose
\* handle is NullPtr stands for the dereference of a null shared_ptr.
NullPtr == << >>
CreatePublisher(topic) == <<topic>>

\* Variant of the constructor: natNetVersion > Version("1.7") instead of >=.
RigidBodyPublisherCtor_strict(obj, natNetVersion, config) ==
  [obj |-> obj,
   config |-> config,
   tfPublisher |-> CreatePublisher("tf"),
   posePublisher |->
     IF config.publishPose THEN CreatePublisher(config.poseTopicName) ELSE NullPtr,
   pose2dPublisher |->
     IF config.publishPose2d THEN CreatePublisher(config.pose2dTopicName) ELSE NullPtr,
   odometry_publisher_ |->
     IF config.publishOdom THEN CreatePublisher(config.odomTopicName) ELSE NullPtr,
   useNewCoordinates |->
     VersionGE(natNetVersion, Version17) /\ natNetVersion # Version17]

\* Variant of the constructor: pose2dPublisher created under publishPose.
RigidBodyPublisherCtor_wrongFlag(obj, natNetVersion, config) ==
  [obj |-> obj,
   config |-> config,
   tfPublisher |-> CreatePublisher("tf"),
   posePublisher |->
     IF config.publishPose THEN CreatePublisher(config.poseTopicName) ELSE NullPtr,
   pose2dPublisher |->
     IF config.publishPose THEN CreatePublisher(config.pose2dTopicName) ELSE NullPtr,
   odometry_publisher_ |->
     IF config.publishOdom THEN CreatePublisher(config.odomTopicName) ELSE NullPtr,
   useNewCoordinates |-> VersionGE(natNetVersion, Version17)]

\* RigidBodyPublisher::RigidBodyPublisher(node, natNetVersion, config).
\* obj identifies the allocated object.
RigidBodyPublisherCtor(obj, natNetVersion, config) ==
  [obj |-> obj,
   config |-> config,
   tfPublisher |-> CreatePublisher("tf"),
   posePublisher |->
     IF config.publishPose THEN CreatePublisher(config.poseTopicName) ELSE NullPtr,
   pose2dPublisher |->
     IF config.publishPose2d THEN CreatePublisher(config.pose2dTopicName) ELSE NullPtr,
   odometry_publisher_ |->
     IF config.publishOdom THEN CreatePublisher(config.odomTopicName) ELSE NullPtr,
   useNewCoordinates |-> VersionGE(natNetVersion, Version17)]

\* Variant of SkipSample: without the NaN test.
SkipSample_noNaN(body) == ~hasValidData(body)

\* The two early returns of publish: no valid data, or position x is NaN
\* (x != x).
SkipSample(body) ==
  \/ ~hasValidData(body)
  \/ FloatNeq(body.pose.position.x, body.pose.position.x)

\* pose = getRosPose(body, useNewCoordinates); pose.header.stamp = time
StampedPose(pub, time, body) ==
  [getRosPose(body, pub.useNewCoordinates) EXCEPT !.header.stamp = time]

\* posePublisher->publish(pose), frame_id set to the parent frame.
PoseMessage(pub, pose) ==
  [sink |-> "pose", by |-> pub.obj, handle |-> pub.posePublisher,
   msg |-> [pose EXCEPT !.header.frame_id = pub.config.parentFrameId]]

\* pose2dPublisher->publish(pose2d): x, y and yaw; Pose2D has no header.
Pose2dMessage(pub, pose) ==
  [sink |-> "pose2d", by |-> pub.obj, handle |-> pub.pose2dPublisher,
   msg |-> [x |-> pose.pose.position.x,
            y |-> pose.pose.position.y,
            theta |-> getYaw(pose.pose.orientation)]]

\* The odometry message's 6x6 pose covariance, row-major in 36 doubles.
NUM_DIMENSIONS == 6
CovarianceIndices == 0 .. (NUM_DIMENSIONS * NUM_DIMENSIONS - 1)
\* A default-constructed message is value-initialized: every entry is zero.
DefaultCovariance == [i \in CovarianceIndices |-> 0]

\* Variant of pose_covariance_diagonal: a non-zero diagonal.
pose_covariance_diagonal_ones == [index \in 0 .. (NUM_DIMENSIONS - 1) |-> 1]

\* std::array<double, 6> pose_covariance_diagonal{0}
pose_covariance_diagonal == [index \in 0 .. (NUM_DIMENSIONS - 1) |-> 0]

\* The loop writing covariance[6 * index + index] for index = 0..5.
PoseCovariance ==
  [i \in CovarianceIndices |->
     IF \E index \in 0 .. (NUM_DIMENSIONS - 1) : i = NUM_DIMENSIONS * index + index
     THEN pose_covariance_diagonal[
            CHOOSE index \in 0 .. (NUM_DIMENSIONS - 1) :
              i = NUM_DIMENSIONS * index + index]
     ELSE DefaultCovariance[i]]

\* TwistWithCovariance(MessageInitialization::ALL): all zero.
DefaultTwist ==
  [twist |-> [linear |-> Zero3, angular |-> Zero3],
   covariance |-> DefaultCovariance]

\* Variant of OdometryMessage: header.stamp left at its default.
OdometryMessage_noStamp(pub, time, pose) ==
  [sink |-> "odom", by |-> pub.obj, handle |-> pub.odometry_publisher_,
   msg |-> [header |-> [stamp |-> ZeroTime, frame_id |-> pub.config.parentFrameId],
            child_frame_id |-> pub.config.childFrameId,
            pose |-> [pose |-> [position |-> Vector3(pose.pose.position.x,
                                                     pose.pose.position.y,
                                                     pose.pose.position.z),
                                orientation |-> Quaternion(pose.pose.orientation.x,
                                                           pose.pose.orientation.y,
                                                           pose.pose.orientation.z,
                                                           pose.pose.orientation.w)],
                      covariance |-> PoseCovariance],
            twist |-> DefaultTwist]]

\* odometry_publisher_->publish(odometry_message)
OdometryMessage(pub, time, pose) ==
  [sink |-> "odom", by |-> pub.obj, handle |-> pub.odometry_publisher_,
   msg |-> [header |-> [stamp |-> time, frame_id |-> pub.config.parentFrameId],
            child_frame_id |-> pub.config.childFrameId,
            pose |-> [pose |-> [position |-> Vector3(pose.pose.position.x,
                                                     pose.pose.position.y,
                                                     pose.pose.position.z),
                                orientation |-> Quaternion(pose.pose.orientation.x,
                                                           pose.pose.orientation.y,
                                                           pose.pose.orientation.z,
                                                           pose.pose.orientation.w)],
                      covariance |-> PoseCovariance],
            twist |-> DefaultTwist]]

\* Variant of TransformMessage: translation x and y exchanged.
TransformMessage_swappedXY(pub, time, pose) ==
  [sink |-> "tf", by |-> pub.obj, handle |-> pub.tfPublisher,
   msg |-> [header |-> [stamp |-> time, frame_id |-> pub.config.parentFrameId],
            child_frame_id |-> pub.config.childFrameId,
            transform |-> [rotation |-> pose.pose.orientation,
                           translation |-> Vector3(pose.pose.position.y,
                                                   pose.pose.position.x,
                                                   pose.pose.position.z)]]]

\* tfPublisher.sendTransform(transformStamped)
TransformMessage(pub, time, pose) ==
  [sink |-> "tf", by |-> pub.obj, handle |-> pub.tfPublisher,
   msg |-> [header |-> [stamp |-> time, frame_id |-> pub.config.parentFrameId],
            child_frame_id |-> pub.config.childFrameId,
            transform |-> [rotation |-> pose.pose.orientation,
                           translation |-> Vector3(pose.pose.position.x,
                                                   pose.pose.position.y,
                                                   pose.pose.position.z)]]]

\* void RigidBodyPublisher::publish(time, body): the messages it emits, in order.
RigidBodyPublisher_publish(pub, time, body) ==
  IF SkipSample(body)
  THEN << >>
  ELSE LET pose == StampedPose(pub, time, body)
       IN (IF pub.config.publishPose THEN <<PoseMessage(pub, pose)>> ELSE << >>)
          \o (IF pub.config.publishPose2d THEN <<Pose2dMessage(pub, pose)>> ELSE << >>)
          \o (IF pub.config.publishOdom THEN <<OdometryMessage(pub, time, pose)>> ELSE << >>)
          \o (IF pub.config.publishTf THEN <<TransformMessage(pub, time, pose)>> ELSE << >>)

\* ---------------------------------------------------------------- Dispatcher
EmptyMap == [id \in {} |-> 0]

\* Variant of MapAssign: insert-if-absent, an existing entry is kept.
MapAssign_keepFirst(map, key, value) ==
  [k \in DOMAIN map \cup {key} |-> IF k \in DOMAIN map THEN map[k] ELSE value]

\* rigidBodyPublisherMap[key] = value
MapAssign(map, key, value) ==
  [k \in DOMAIN map \cup {key} |-> IF k = key THEN value ELSE map[k]]

\* RigidBodyPublishDispatcher::RigidBodyPublishDispatcher(node, natNetVersion, configs):
\* the map after the first n configurations.
RECURSIVE DispatcherCtorLoop(_, _, _)
DispatcherCtorLoop(natNetVersion, cfgs, n) ==
  IF n = 0
  THEN EmptyMap
  ELSE MapAssign(DispatcherCtorLoop(natNetVersion, cfgs, n - 1),
                 cfgs[n].rigidBodyId,
                 RigidBodyPublisherCtor(n, natNetVersion, cfgs[n]))

DispatcherCtor(natNetVersion, cfgs) ==
  DispatcherCtorLoop(natNetVersion, cfgs, Len(cfgs))

\* Variant of MapFind: rigidBodyPublisherMap[id], which inserts an entry with a
\* null Publisher for an unknown id.
NullPublisher ==
  RigidBodyPublisherCtor(0, Version17,
    PublisherConfiguration(0, FALSE, FALSE, FALSE, FALSE, ""))
MapFind_subscript(map, id) ==
  IF id \in DOMAIN map THEN map ELSE MapAssign(map, id, NullPublisher)

\* rigidBodyPublisherMap.find(id) leaves the map as it is.
MapFind(map, id) == map

\* Variant of DispatchStep: the latest sample's invocation goes first.
DispatchStep_prepend(acc, time, rigidBody) ==
  LET map == MapFind(acc.map, rigidBody.bodyId)
  IN IF rigidBody.bodyId \in DOMAIN map
     THEN [map |-> map,
           emitted |-> RigidBodyPublisher_publish(map[rigidBody.bodyId], time, rigidBody)
                         \o acc.emitted,
           invoked |-> <<[obj |-> map[rigidBody.bodyId].obj, body |-> rigidBody]>>
                         \o acc.invoked]
     ELSE [acc EXCEPT !.map = map]

\* One iteration of the loop of RigidBodyPublishDispatcher::publish.
\* acc: the map, the messages emitted and the Publishers invoked so far.
DispatchStep(acc, time, rigidBody) ==
  LET map == MapFind(acc.map, rigidBody.bodyId)
  IN IF rigidBody.bodyId \in DOMAIN map
     THEN [map |-> map,
           emitted |-> acc.emitted
                         \o RigidBodyPublisher_publish(map[rigidBody.bodyId], time, rigidBody),
           invoked |-> Append(acc.invoked,
                              [obj |-> map[rigidBody.bodyId].obj, body |-> rigidBody])]
     ELSE [acc EXCEPT !.map = map]

\* for (auto const& rigidBody : rigidBodies): the first n samples, in order.
RECURSIVE DispatchLoop(_, _, _, _)
DispatchLoop(map, time, batch, n) ==
  IF n = 0
  THEN [map |-> map, emitted |-> << >>, invoked |-> << >>]
  ELSE DispatchStep(DispatchLoop(map, time, batch, n - 1), time, batch[n])

\* ---------------------------------------------------------------- state
VARIABLES
  natNetVersion,          \* the version tag given to the constructors
  configs,                \* the configuration list given to the dispatcher's constructor
  rigidBodyPublisherMap,  \* RigidBodyPublishDispatcher::rigidBodyPublisherMap
  time,                   \* timestamp of the latest publish call
  rigidBodies,            \* batch of the latest publish call
  emitted,                \* messages the latest publish call emitted, in order
  invoked,                \* Publisher invocations of the latest publish call, in order
  calls,                  \* publish calls made so far
  body,                   \* argument of the getRosPose call
  newCoordinates,         \* argument of the getRosPose call
  rosPose                 \* << >> before getRosPose returns, <<result>> after

vars ==
  <<natNetVersion, configs, rigidBodyPublisherMap, time, rigidBodies, emitted,
    invoked, calls, body, newCoordinates, rosPose>>

dispatcherVars ==
  <<natNetVersion, configs, rigidBodyPublisherMap, time, rigidBodies, emitted,
    invoked, calls>>

SeqsUpTo(S, n) == UNION { [1 .. k -> S] : k \in 0 .. n }

\* Input pools.
SamplePosition == Vector3(1, 0, -1)
SampleOrientation == Quaternion(0, 1, 0, 0)
DefaultBody == RigidBody(1, TRUE, SamplePosition, SampleOrientation)

\* Samples for one Publisher: valid or not, NaN in x and/or y or in neither.
PublisherSamples ==
  { RigidBody(id, valid, Vector3(x, y, -1), SampleOrientation) :
      id \in BodyIds, valid \in BOOLEAN, x \in {1, NaN}, y \in {0, NaN} }

\* Samples for the dispatcher: a valid sample per id, an invalid one and one
\* whose position x is NaN.
DispatcherSamples ==
  { RigidBody(id, TRUE, SamplePosition, SampleOrientation) : id \in BodyIds }
  \cup { RigidBody(1, FALSE, SamplePosition, SampleOrientation),
         RigidBody(2, TRUE, Vector3(NaN, 0, -1), SampleOrientation) }

\* Configurations for the dispatcher: two records for id 1 that differ in their
\* sinks and parent frame, and one record for id 2.
DispatcherConfigurations ==
  { PublisherConfiguration(1, TRUE, FALSE, FALSE, TRUE, "world"),
    PublisherConfiguration(1, FALSE, TRUE, TRUE, FALSE, "map"),
    PublisherConfiguration(2, TRUE, FALSE, FALSE, TRUE, "world") }

NoCall ==
  /\ time = ZeroTime
  /\ rigidBodies = << >>
  /\ emitted = << >>
  /\ invoked = << >>
  /\ calls = 0

NoPoseCall ==
  /\ body = DefaultBody
  /\ newCoordinates = FALSE
  /\ rosPose = << >>

\* ---------------------------------------------------------------- dispatcher
\* After RigidBodyPublishDispatcher's constructor.
Init ==
  /\ natNetVersion \in {Version(1, 6), Version(1, 7)}
  /\ configs \in SeqsUpTo(DispatcherConfigurations, MaxConfigs)
  /\ rigidBodyPublisherMap = DispatcherCtor(natNetVersion, configs)
  /\ NoCall
  /\ NoPoseCall

\* void RigidBodyPublishDispatcher::publish(time, rigidBodies)
DispatcherPublish(t, batch) ==
  LET r == DispatchLoop(rigidBodyPublisherMap, t, batch, Len(batch))
  IN /\ calls < MaxCalls
     /\ time' = t
     /\ rigidBodies' = batch
     /\ rigidBodyPublisherMap' = r.map
     /\ emitted' = r.emitted
     /\ invoked' = r.invoked
     /\ calls' = calls + 1
     /\ UNCHANGED <<natNetVersion, configs, body, newCoordinates, rosPose>>

Next ==
  \E t \in Times, batch \in SeqsUpTo(DispatcherSamples, MaxBatch) :
    DispatcherPublish(t, batch)

Spec == Init /\ [][Next]_vars

\* ---------------------------------------------------------------- one Publisher
\* After the constructor built one Publisher from one configuration.
InitPublisher ==
  /\ natNetVersion \in NatNetVersions
  /\ configs \in { <<c>> : c \in AllConfigurations }
  /\ rigidBodyPublisherMap = DispatcherCtor(natNetVersion, configs)
  /\ NoCall
  /\ NoPoseCall

\* A direct call of RigidBodyPublisher::publish(time, body) on the Publisher.
PublisherPublish(id, t, sample) ==
  /\ calls < MaxCalls
  /\ id \in DOMAIN rigidBodyPublisherMap
  /\ time' = t
  /\ rigidBodies' = <<sample>>
  /\ emitted' = RigidBodyPublisher_publish(rigidBodyPublisherMap[id], t, sample)
  /\ invoked' = <<[obj |-> rigidBodyPublisherMap[id].obj, body |-> sample]>>
  /\ calls' = calls + 1
  /\ UNCHANGED <<natNetVersion, configs, rigidBodyPublisherMap,
                 body, newCoordinates, rosPose>>

NextPublisher ==
  \E id \in BodyIds, t \in Times, sample \in PublisherSamples :
    PublisherPublish(id, t, sample)

SpecPublisher == InitPublisher /\ [][NextPublisher]_vars

\* ---------------------------------------------------------------- getRosPose
\* The arguments of one getRosPose call: every pose over Floats, either convention.
InitRosPose ==
  /\ natNetVersion = Version17
  /\ configs = << >>
  /\ rigidBodyPublisherMap = DispatcherCtor(natNetVersion, configs)
  /\ NoCall
  /\ body \in { RigidBody(1, TRUE, Vector3(x, y, z), Quaternion(qx, qy, qz, qw)) :
                 x \in Floats, y \in Floats, z \in Floats,
                 qx \in Floats, qy \in Floats, qz \in Floats, qw \in Floats }
  /\ newCoordinates \in BOOLEAN
  /\ rosPose = << >>

\* rosPose = utilities::getRosPose(body, newCoordinates)
GetRosPoseCall ==
  /\ rosPose = << >>
  /\ rosPose' = <<getRosPose(body, newCoordinates)>>
  /\ UNCHANGED <<dispatcherVars, body, newCoordinates>>

NextRosPose == GetRosPoseCall

SpecRosPose == InitRosPose /\ [][NextRosPose]_vars

\* ---------------------------------------------------------------- properties
\* The one sample and the one Publisher of a direct RigidBodyPublisher::publish call.
Sample == rigidBodies[1]
Publisher == rigidBodyPublisherMap[configs[1].rigidBodyId]
Called == calls > 0 /\ Len(rigidBodies) = 1 /\ Len(configs) = 1
CountOn(sink) == Cardinality({ i \in DOMAIN emitted : emitted[i].sink = sink })
HasHeader(m) == "header" \in DOMAIN m.msg

\* C1: publish emits nothing on any sink when the sample's validity flag is
\* false, and nothing when position x is NaN even if the flag is true, whatever
\* sinks are enabled and whatever calls came before.
C1_NoOutputForInvalidOrNaN ==
  (Called /\ (~Sample.isTrackingValid \/ Sample.pose.position.x = NaN))
    => emitted = << >>

C1_Witness ==
  /\ Called /\ calls = 2
  /\ Sample.isTrackingValid /\ Sample.pose.position.x = NaN
  /\ Publisher.config.publishPose /\ Publisher.config.publishPose2d
  /\ Publisher.config.publishOdom /\ Publisher.config.publishTf
  /\ emitted = << >>

\* C2: getRosPose returns the input pose unchanged when newCoordinates is true,
\* and position (x, -z, y) with orientation (qx, -qz, qy, qw) when it is false.
IsNegationOf(r, a) == IF a = NaN THEN r = NaN ELSE r # NaN /\ r + a = 0

C2_GetRosPoseMapping ==
  rosPose # << >> =>
    LET r == rosPose[1].pose
        p == body.pose.position
        o == body.pose.orientation
    IN IF newCoordinates
       THEN r.position = p /\ r.orientation = o
       ELSE /\ r.position.x = p.x
            /\ IsNegationOf(r.position.y, p.z)
            /\ r.position.z = p.y
            /\ r.orientation.x = o.x
            /\ IsNegationOf(r.orientation.y, o.z)
            /\ r.orientation.z = o.y
            /\ r.orientation.w = o.w

C2_Witness ==
  /\ rosPose # << >> /\ ~newCoordinates
  /\ body.pose.position = Vector3(0, 1, -1)
  /\ rosPose[1].pose.position = Vector3(0, 1, 1)
  /\ body.pose.orientation = Quaternion(1, 0, 1, NaN)
  /\ rosPose[1].pose.orientation = Quaternion(1, -1, 0, NaN)

\* C3: the dispatcher invokes Publishers in batch order: the invocations are the
\* batch's samples whose bodyId is a key of the map, each handed to the Publisher
\* stored under its bodyId; a sample without an entry invokes nothing and does not
\* stop the samples after it.
IsConfigured(sample) == sample.bodyId \in DOMAIN rigidBodyPublisherMap

C3_DispatchInOrder ==
  LET routed == SelectSeq(rigidBodies, IsConfigured)
  IN /\ Len(invoked) = Len(routed)
     /\ \A i \in DOMAIN invoked :
          /\ invoked[i].body = routed[i]
          /\ invoked[i].obj = rigidBodyPublisherMap[routed[i].bodyId].obj

C3_Witness ==
  /\ calls > 0 /\ Len(rigidBodies) = 2
  /\ ~IsConfigured(rigidBodies[1]) /\ IsConfigured(rigidBodies[2])
  /\ Len(invoked) = 1 /\ invoked[1].body = rigidBodies[2]
  /\ emitted # << >>

\* C4: for a valid sample whose position x is not NaN, publish emits exactly one
\* message on every enabled sink and none on a disabled one, and every message
\* carries the same normalized pose.
C4_OnePerEnabledSink ==
  (Called /\ Sample.isTrackingValid /\ Sample.pose.position.x # NaN) =>
    LET c == configs[1]
        n == getRosPose(Sample, Publisher.useNewCoordinates).pose
    IN /\ CountOn("pose") = (IF c.publishPose THEN 1 ELSE 0)
       /\ CountOn("pose2d") = (IF c.publishPose2d THEN 1 ELSE 0)
       /\ CountOn("odom") = (IF c.publishOdom THEN 1 ELSE 0)
       /\ CountOn("tf") = (IF c.publishTf THEN 1 ELSE 0)
       /\ Len(emitted) = CountOn("pose") + CountOn("pose2d") + CountOn("odom") + CountOn("tf")
       /\ \A i \in DOMAIN emitted :
            LET m == emitted[i].msg
            IN CASE emitted[i].sink = "pose" ->
                      m.pose.position = n.position /\ m.pose.orientation = n.orientation
                 [] emitted[i].sink = "pose2d" ->
                      m.x = n.position.x /\ m.y = n.position.y
                 [] emitted[i].sink = "odom" ->
                      m.pose.pose.position = n.position
                        /\ m.pose.pose.orientation = n.orientation
                 [] emitted[i].sink = "tf" ->
                      m.transform.translation = n.position
                        /\ m.transform.rotation = n.orientation
                 [] OTHER -> FALSE

C4_Witness ==
  /\ Called /\ Sample.isTrackingValid /\ Sample.pose.position = Vector3(1, NaN, -1)
  /\ configs[1].publishPose /\ ~configs[1].publishPose2d
  /\ ~configs[1].publishOdom /\ configs[1].publishTf
  /\ Publisher.useNewCoordinates
  /\ Len(emitted) = 2
  /\ emitted[1].sink = "pose" /\ emitted[2].sink = "tf"
  /\ emitted[2].msg.transform.translation = Vector3(1, NaN, -1)

\* C5 as claimed: every message publish emits, the planar-pose message included,
\* carries the timestamp passed to the call.
C5_EveryMessageStamped ==
  \A i \in DOMAIN emitted :
    HasHeader(emitted[i]) /\ emitted[i].msg.header.stamp = time

\* C5, amended: the pose, odometry and transform messages carry the timestamp
\* passed to the call; the planar-pose message has no timestamp field at all.
C5_HeaderedMessagesStamped ==
  \A i \in DOMAIN emitted :
    IF emitted[i].sink = "pose2d"
    THEN ~HasHeader(emitted[i]) /\ DOMAIN emitted[i].msg = {"x", "y", "theta"}
    ELSE HasHeader(emitted[i]) /\ emitted[i].msg.header.stamp = time

C5_Witness ==
  /\ Called /\ calls = 2 /\ time = 2
  /\ Len(emitted) = 4
  /\ emitted[1].msg.header.stamp = 2
  /\ emitted[2].sink = "pose2d"
  /\ emitted[3].msg.header.stamp = 2
  /\ emitted[4].msg.header.stamp = 2

\* C6: all 36 entries of the pose covariance of every odometry message are zero.
C6_CovarianceAllZero ==
  \A i \in DOMAIN emitted :
    emitted[i].sink = "odom" =>
      /\ DOMAIN emitted[i].msg.pose.covariance = 0 .. 35
      /\ \A k \in 0 .. 35 : emitted[i].msg.pose.covariance[k] = 0

C6_Witness ==
  /\ Called
  /\ \E i \in DOMAIN emitted :
       emitted[i].sink = "odom" /\ emitted[i].msg.pose.covariance[35] = 0

\* C7: no sequence of dispatcher publish calls changes the map, a Publisher's
\* configuration or its useNewCoordinates flag: the map stays the one the
\* constructor built, so the messages of a call depend on its batch and timestamp
\* only.
C7_PublishKeepsState ==
  /\ rigidBodyPublisherMap = DispatcherCtor(natNetVersion, configs)
  /\ emitted =
       DispatchLoop(DispatcherCtor(natNetVersion, configs), time, rigidBodies,
                    Len(rigidBodies)).emitted

C7_Witness ==
  /\ calls = 2 /\ Len(rigidBodies) = 2
  /\ ~IsConfigured(rigidBodies[1])
  /\ IsConfigured(rigidBodies[2]) /\ rigidBodies[2].isTrackingValid
  /\ rigidBodies[2].pose.position.x # NaN
  /\ Len(emitted) = 2

\* C8: useNewCoordinates is set in the constructor, true exactly when the NatNet
\* version is 1.7 or later (1.7 included), and every publish call normalizes
\* with that convention.
AtLeast17 ==
  natNetVersion.major > 1 \/ (natNetVersion.major = 1 /\ natNetVersion.minor >= 7)

C8_ConventionFromVersion ==
  /\ \A id \in DOMAIN rigidBodyPublisherMap :
       rigidBodyPublisherMap[id].useNewCoordinates = AtLeast17
  /\ Called =>
       \A i \in DOMAIN emitted :
         emitted[i].sink = "pose" =>
           emitted[i].msg.pose =
             (IF AtLeast17
              THEN Sample.pose
              ELSE getRosPose(Sample, FALSE).pose)

C8_Witness ==
  /\ Called /\ calls = 2 /\ natNetVersion = Version17
  /\ Publisher.useNewCoordinates
  /\ emitted # << >> /\ emitted[1].sink = "pose"
  /\ emitted[1].msg.pose.position = Vector3(1, 0, -1)

\* C9: with several records of the same rigidBodyId in the configuration list,
\* the map has one entry per distinct id, the Publisher built from the last
\* record with that id, and samples of that id are published by that Publisher
\* only, with that record's sinks and frame labels.
LastIndexOf(id) ==
  CHOOSE i \in DOMAIN configs :
    /\ configs[i].rigidBodyId = id
    /\ \A j \in DOMAIN configs : configs[j].rigidBodyId = id => j <= i

SinkEnabled(c, sink) ==
  CASE sink = "pose" -> c.publishPose
    [] sink = "pose2d" -> c.publishPose2d
    [] sink = "odom" -> c.publishOdom
    [] sink = "tf" -> c.publishTf
    [] OTHER -> FALSE

C9_LastRecordWins ==
  /\ DOMAIN rigidBodyPublisherMap = { configs[i].rigidBodyId : i \in DOMAIN configs }
  /\ \A id \in DOMAIN rigidBodyPublisherMap :
       /\ rigidBodyPublisherMap[id].obj = LastIndexOf(id)
       /\ rigidBodyPublisherMap[id].config = configs[LastIndexOf(id)]
  /\ \A i \in DOMAIN emitted :
       LET c == configs[emitted[i].by]
       IN /\ emitted[i].by = LastIndexOf(c.rigidBodyId)
          /\ SinkEnabled(c, emitted[i].sink)
          /\ HasHeader(emitted[i]) => emitted[i].msg.header.frame_id = c.parentFrameId

C9_Witness ==
  /\ calls > 0
  /\ Len(configs) = 2
  /\ configs[1].rigidBodyId = 1 /\ configs[2].rigidBodyId = 1
  /\ configs[1].publishPose /\ ~configs[2].publishPose
  /\ DOMAIN rigidBodyPublisherMap = {1}
  /\ Len(emitted) = 2
  /\ emitted[1].sink = "pose2d" /\ emitted[2].sink = "odom"
  /\ emitted[2].msg.header.frame_id = "map"

\* C10: publish uses a sink handle only if the constructor created it: each
\* handle exists exactly when its configuration flag is set, the flag is the one
\* of the configuration record the Publisher was built from, and no emitted
\* message went through a null handle.
C10_HandlesCreatedBeforeUse ==
  /\ \A id \in DOMAIN rigidBodyPublisherMap :
       LET pub == rigidBodyPublisherMap[id]
       IN /\ pub.config = configs[pub.obj]
          /\ (pub.posePublisher # NullPtr) = pub.config.publishPose
          /\ (pub.pose2dPublisher # NullPtr) = pub.config.publishPose2d
          /\ (pub.odometry_publisher_ # NullPtr) = pub.config.publishOdom
  /\ \A i \in DOMAIN emitted : emitted[i].handle # NullPtr

C10_Witness ==
  /\ Called /\ calls = 2
  /\ ~configs[1].publishPose /\ configs[1].publishPose2d
  /\ ~configs[1].publishOdom /\ ~configs[1].publishTf
  /\ Len(emitted) = 1
  /\ emitted[1].sink = "pose2d" /\ emitted[1].handle = CreatePublisher("pose2d")

====
